---------------------------- MODULE Spec2Model ----------------------------
(***************************************************************************)
(* csv-datastream: the CSV ingestion and aggregation pipeline.             *)
(*                                                                         *)
(*   parseCSVFile                              (csv-parser, lines 25-119)  *)
(*   indexRecordsByLocation                    (csv-parser, lines 124-142) *)
(*   calculateTemperatureAverageFromIndex      (csv-parser, lines 147-176) *)
(*   getMonitoringLocationsWithNamesFromIndex  (csv-parser, lines 181-199) *)
(*   CSVProcessor.svelte                       (the component's handlers)  *)
(*                                                                         *)
(* Representation.                                                         *)
(*   A JavaScript string is a sequence of fragments.  The characters that  *)
(*   parseFloat and String.prototype.trim look at (digits, signs, ".",     *)
(*   "e", "E", white space at either end) are fragments of their own; any  *)
(*   other run of characters is one fragment (a word, inner spaces         *)
(*   included).  The word "Infinity" is the literal parseFloat recognises. *)
(*   Two strings are === exactly when their fragment sequences are equal.  *)
(*   An object (a row record) is a function from property names (strings)  *)
(*   to values; a property that is absent is not in its DOMAIN.            *)
(*   A Map is a record [keys, vals]: the keys in insertion order and the   *)
(*   value stored under each key.                                          *)
(*   A number is [k, n, d]: NaN, +/-Infinity or the finite rational n/d    *)
(*   in lowest terms.  Overflow of a double to Infinity is kept, scaled    *)
(*   down to MaxFinite; rounding and the sign of zero are not modelled.    *)
(***************************************************************************)
EXTENDS Integers, Sequences, FiniteSets, TLC

(***************************************************************************)
(* Bounds of the model.                                                    *)
(***************************************************************************)
\* The largest magnitude a finite number has (Number.MAX_VALUE, scaled down).
MaxFinite == 1000

\* The longest record group of an index handed to the aggregator.
MaxGroup == 2

\* The longest record sequence handed to indexRecordsByLocation.
MaxRecords == 3

\* The most rows one decode accumulates.
MaxRows == 2

\* The most chunk callbacks of one decode.
MaxChunks == 2

(***************************************************************************)
(* Strings.                                                                *)
(***************************************************************************)
WhiteSpace == {" ", "\t"}

DecimalDigits == <<"0", "1", "2", "3", "4", "5", "6", "7", "8", "9">>

IsDigit(c) == \E i \in 1..Len(DecimalDigits) : DecimalDigits[i] = c

DigitValue(c) == (CHOOSE i \in 1..Len(DecimalDigits) : DecimalDigits[i] = c) - 1

\* s without its first n fragments.
Drop(s, n) == SubSeq(s, n + 1, Len(s))

\* s without leading white space.
RECURSIVE TrimStart(_)
TrimStart(s) ==
    IF s # <<>> /\ Head(s) \in WhiteSpace THEN TrimStart(Tail(s)) ELSE s

\* s without trailing white space.
RECURSIVE TrimEnd(_)
TrimEnd(s) ==
    IF s # <<>> /\ s[Len(s)] \in WhiteSpace
    THEN TrimEnd(SubSeq(s, 1, Len(s) - 1))
    ELSE s

\* String.prototype.trim.
Trim(s) == TrimEnd(TrimStart(s))

\* The longest prefix of s made of decimal digits.
RECURSIVE DigitRun(_)
DigitRun(s) ==
    IF s # <<>> /\ IsDigit(Head(s))
    THEN <<Head(s)>> \o DigitRun(Tail(s))
    ELSE <<>>

\* The value of a digit sequence read from the left, starting from acc.
RECURSIVE DigitsValue(_, _)
DigitsValue(ds, acc) ==
    IF ds = <<>> THEN acc
    ELSE DigitsValue(Tail(ds), acc * 10 + DigitValue(Head(ds)))

(***************************************************************************)
(* Numbers.                                                                *)
(***************************************************************************)
NaN == [k |-> "nan", n |-> 0, d |-> 1]

Infinity(sign) == [k |-> "inf", n |-> sign, d |-> 1]

Abs(x) == IF x < 0 THEN -x ELSE x

RECURSIVE GCD(_, _)
GCD(a, b) == IF b = 0 THEN a ELSE GCD(b, a % b)

\* The finite number n/d (d > 0) in lowest terms; Infinity beyond MaxFinite.
Finite(n, d) ==
    IF Abs(n) > MaxFinite * d
    THEN Infinity(IF n < 0 THEN -1 ELSE 1)
    ELSE LET g == GCD(Abs(n), d)
         IN  [k |-> "fin", n |-> n \div g, d |-> d \div g]

Zero == Finite(0, 1)

isNaN(v) == v.k = "nan"

isFinite(v) == v.k = "fin"

\* a + b on numbers.
Plus(a, b) ==
    IF isNaN(a) \/ isNaN(b) THEN NaN
    ELSE IF a.k = "inf" /\ b.k = "inf" THEN (IF a.n = b.n THEN a ELSE NaN)
    ELSE IF a.k = "inf" THEN a
    ELSE IF b.k = "inf" THEN b
    ELSE Finite(a.n * b.d + b.n * a.d, a.d * b.d)

\* a / c for a number a and an integer c (an array length).
DividedBy(a, c) ==
    IF isNaN(a) THEN NaN
    ELSE IF c = 0
         THEN (IF a.k = "fin" /\ a.n = 0 THEN NaN
               ELSE Infinity(IF a.n < 0 THEN -1 ELSE 1))
    ELSE IF a.k = "inf" THEN a
    ELSE Finite(a.n, a.d * c)

RECURSIVE Pow10(_)
Pow10(e) == IF e = 0 THEN 1 ELSE 10 * Pow10(e - 1)

\* m * 10^e for m > 0, e >= 0, stopping as soon as the value is past MaxFinite.
RECURSIVE ScaleUp(_, _)
ScaleUp(m, e) ==
    IF e = 0 \/ m > MaxFinite THEN m ELSE ScaleUp(m * 10, e - 1)

\* sign * m * 10^e as a number.
Decimal(sign, m, e) ==
    IF m = 0 THEN Zero
    ELSE IF e >= 0 THEN Finite(sign * ScaleUp(m, e), 1)
    ELSE Finite(sign * m, Pow10(-e))

(***************************************************************************)
(* parseFloat (ECMAScript): skip leading white space, then read the        *)
(* longest prefix that is a StrDecimalLiteral                              *)
(*    [+-] ( Infinity | digits [. [digits]] [exp] | . digits [exp] ),      *)
(* exp = (e|E) [+-] digits; NaN when there is no such prefix.  What        *)
(* follows the prefix is ignored.                                          *)
(***************************************************************************)
parseFloat(text) ==
    LET s0     == TrimStart(text)
        signed == s0 # <<>> /\ Head(s0) \in {"+", "-"}
        sign   == IF s0 # <<>> /\ Head(s0) = "-" THEN -1 ELSE 1
        s1     == IF signed THEN Tail(s0) ELSE s0
        ip     == DigitRun(s1)
        s2     == Drop(s1, Len(ip))
        hasDot == s2 # <<>> /\ Head(s2) = "."
        fp     == IF hasDot THEN DigitRun(Tail(s2)) ELSE <<>>
        s3     == IF hasDot THEN Drop(s2, 1 + Len(fp)) ELSE s2
        hasE   == s3 # <<>> /\ Head(s3) \in {"e", "E"}
        s4     == IF hasE THEN Tail(s3) ELSE <<>>
        esign  == IF s4 # <<>> /\ Head(s4) = "-" THEN -1 ELSE 1
        s5     == IF s4 # <<>> /\ Head(s4) \in {"+", "-"} THEN Tail(s4) ELSE s4
        ed     == DigitRun(s5)
        exp    == IF ed # <<>> THEN esign * DigitsValue(ed, 0) ELSE 0
    IN  IF s1 # <<>> /\ Head(s1) = "Infinity" THEN Infinity(sign)
        ELSE IF ip = <<>> /\ fp = <<>> THEN NaN
        ELSE Decimal(sign, DigitsValue(ip \o fp, 0), exp - Len(fp))


(***************************************************************************)
(* Row records and Maps.                                                   *)
(***************************************************************************)
MonitoringLocationID == <<"MonitoringLocationID">>

CharacteristicName == <<"CharacteristicName">>

ResultValue == <<"ResultValue">>

MonitoringLocationName == <<"MonitoringLocationName">>

TemperatureWater == <<"Temperature, water">>

\* key in obj
HasProperty(obj, key) == key \in DOMAIN obj

\* The truthiness of obj[key]: false when absent (undefined) or "".
IsTruthy(obj, key) == HasProperty(obj, key) /\ obj[key] # <<>>

\* ToString(obj[key]): the string itself, or "undefined" when absent.
ToStringOf(obj, key) == IF HasProperty(obj, key) THEN obj[key] ELSE <<"undefined">>

\* new Map()
EmptyMap == [keys |-> <<>>, vals |-> [x \in {} |-> <<>>]]

\* map.has(key)
MapHas(map, key) == key \in DOMAIN map.vals

\* map.set(key, value)
MapSet(map, key, value) ==
    [keys |-> IF MapHas(map, key) THEN map.keys ELSE Append(map.keys, key),
     vals |-> [x \in (DOMAIN map.vals) \cup {key} |->
                  IF x = key THEN value ELSE map.vals[x]]]

\* map.get(key): [defined |-> FALSE] stands for undefined.
MapGet(map, key) ==
    IF MapHas(map, key)
    THEN [defined |-> TRUE, array |-> map.vals[key]]
    ELSE [defined |-> FALSE, array |-> <<>>]

(***************************************************************************)
(* indexRecordsByLocation                                                  *)
(***************************************************************************)
\* Mutant: the group is created on first sight but the record that created
\* it is not pushed.
IndexRecord_DropsFirst(locationMap, record) ==
    IF ~IsTruthy(record, MonitoringLocationID) THEN locationMap
    ELSE LET locationId == record[MonitoringLocationID]
         IN  IF ~MapHas(locationMap, locationId)
             THEN MapSet(locationMap, locationId, <<>>)
             ELSE MapSet(locationMap, locationId,
                         Append(locationMap.vals[locationId], record))

\* Mutant: only absent ids are skipped; "" becomes a key.
IndexRecord_KeepsEmptyId(locationMap, record) ==
    IF ~HasProperty(record, MonitoringLocationID) THEN locationMap
    ELSE LET locationId == record[MonitoringLocationID]
             created    == IF ~MapHas(locationMap, locationId)
                           THEN MapSet(locationMap, locationId, <<>>)
                           ELSE locationMap
         IN  MapSet(created, locationId,
                    Append(created.vals[locationId], record))

\* Mutant: the record is put in front of its group.
IndexRecord_Unshift(locationMap, record) ==
    IF ~IsTruthy(record, MonitoringLocationID) THEN locationMap
    ELSE LET locationId == record[MonitoringLocationID]
             created    == IF ~MapHas(locationMap, locationId)
                           THEN MapSet(locationMap, locationId, <<>>)
                           ELSE locationMap
         IN  MapSet(created, locationId,
                    <<record>> \o created.vals[locationId])

\* One iteration of the loop over records.
IndexRecord(locationMap, record) ==
    IF ~IsTruthy(record, MonitoringLocationID) THEN locationMap
    ELSE LET locationId == record[MonitoringLocationID]
             created    == IF ~MapHas(locationMap, locationId)
                           THEN MapSet(locationMap, locationId, <<>>)
                           ELSE locationMap
         IN  MapSet(created, locationId,
                    Append(created.vals[locationId], record))

RECURSIVE IndexLoop(_, _)
IndexLoop(locationMap, records) ==
    IF records = <<>> THEN locationMap
    ELSE IndexLoop(IndexRecord(locationMap, Head(records)), Tail(records))

indexRecordsByLocation(records) == IndexLoop(EmptyMap, records)

(***************************************************************************)
(* calculateTemperatureAverageFromIndex                                    *)
(***************************************************************************)
\* Mutant: the characteristic is compared after trimming.
IsWaterTemperature_Trimmed(record) ==
    /\ HasProperty(record, CharacteristicName)
    /\ Trim(record[CharacteristicName]) = TemperatureWater

\* record.CharacteristicName === "Temperature, water"
IsWaterTemperature(record) ==
    /\ HasProperty(record, CharacteristicName)
    /\ record[CharacteristicName] = TemperatureWater

\* Mutant: no default for an id that is not a key.
OrEmptyArray_Missing(got) == got

\* got || []
OrEmptyArray(got) ==
    IF got.defined THEN got ELSE [defined |-> TRUE, array |-> <<>>]

\* The loop over locationRecords, pushing onto validValues.
RECURSIVE CollectValidValues(_, _)
CollectValidValues(locationRecords, validValues) ==
    IF locationRecords = <<>> THEN validValues
    ELSE LET record == Head(locationRecords)
             value  == parseFloat(ToStringOf(record, ResultValue))
         IN  IF IsWaterTemperature(record) /\ ~isNaN(value) /\ isFinite(value)
             THEN CollectValidValues(Tail(locationRecords), Append(validValues, value))
             ELSE CollectValidValues(Tail(locationRecords), validValues)

\* validValues.reduce((sum, val) => sum + val, sum)
RECURSIVE Reduce(_, _)
Reduce(validValues, sum) ==
    IF validValues = <<>> THEN sum
    ELSE Reduce(Tail(validValues), Plus(sum, Head(validValues)))

\* Mutant: the mean is taken without the guard for an empty validValues.
Average_Unguarded(validValues) ==
    DividedBy(Reduce(validValues, Zero), Len(validValues))

Average(validValues) ==
    IF Len(validValues) > 0
    THEN DividedBy(Reduce(validValues, Zero), Len(validValues))
    ELSE Zero

TemperatureResult(monitoringLocationId, validValues) ==
    [monitoringLocationId |-> monitoringLocationId,
     average              |-> Average(validValues),
     count                |-> Len(validValues),
     validValues          |-> validValues]

\* The completion of a call: a returned value, or a thrown TypeError.
Return(value) == [type |-> "return", value |-> value]

Throw == [type |-> "throw", value |-> TemperatureResult(<<>>, <<>>)]

calculateTemperatureAverageFromIndex(recordsIndex, monitoringLocationId) ==
    LET locationRecords == OrEmptyArray(MapGet(recordsIndex, monitoringLocationId))
    IN  IF ~locationRecords.defined
        THEN Throw   \* for (... of undefined)
        ELSE Return(TemperatureResult(monitoringLocationId,
                        CollectValidValues(locationRecords.array, <<>>)))

(***************************************************************************)
(* getMonitoringLocationsWithNamesFromIndex                                *)
(***************************************************************************)
\* The words of location names and ids, in the order localeCompare puts them.
Collation ==
    <<" ", "(", ")", "Apple Lake", "Banana Lake", "LOC001", "LOC002", "LOC003",
      "LOC999", "Zebra Lake">>

Rank(word) == CHOOSE i \in 1..Len(Collation) : Collation[i] = word

\* a.localeCompare(b) < 0, = 0, > 0 as -1, 0, 1: word by word, a proper
\* prefix first.
RECURSIVE localeCompare(_, _)
localeCompare(a, b) ==
    IF a = <<>> /\ b = <<>> THEN 0
    ELSE IF a = <<>> THEN -1
    ELSE IF b = <<>> THEN 1
    ELSE IF Rank(Head(a)) < Rank(Head(b)) THEN -1
    ELSE IF Rank(Head(a)) > Rank(Head(b)) THEN 1
    ELSE localeCompare(Tail(a), Tail(b))

\* Mutant: an empty MonitoringLocationName is used as the name.
LocationOf_NoFallback(locationId, firstRecord) ==
    LET name == IF HasProperty(firstRecord, MonitoringLocationName)
                THEN firstRecord[MonitoringLocationName]
                ELSE locationId
    IN  [id          |-> locationId,
         name        |-> name,
         displayName |-> name \o <<" ", "(">> \o locationId \o <<")">>]

\* The entry pushed for one key of the index.
LocationOf(locationId, firstRecord) ==
    LET name == IF IsTruthy(firstRecord, MonitoringLocationName)
                THEN firstRecord[MonitoringLocationName]
                ELSE locationId
    IN  [id          |-> locationId,
         name        |-> name,
         displayName |-> name \o <<" ", "(">> \o locationId \o <<")">>]

\* sorted with location put after the last entry that does not compare
\* greater: Array.prototype.sort is stable.
RECURSIVE InsertByName(_, _)
InsertByName(sorted, location) ==
    IF sorted = <<>> THEN <<location>>
    ELSE IF localeCompare(sorted[Len(sorted)].name, location.name) <= 0
         THEN Append(sorted, location)
         ELSE Append(InsertByName(SubSeq(sorted, 1, Len(sorted) - 1), location),
                     sorted[Len(sorted)])

\* Mutant: the locations are left in key order.
SortByName_KeyOrder(locations) == locations

\* locations.sort((a, b) => a.name.localeCompare(b.name))
RECURSIVE SortByName(_)
SortByName(locations) ==
    IF locations = <<>> THEN <<>>
    ELSE InsertByName(SortByName(SubSeq(locations, 1, Len(locations) - 1)),
                      locations[Len(locations)])

\* The loop over recordsIndex.entries(): the locations pushed, in key order.
RECURSIVE CollectLocations(_, _, _)
CollectLocations(recordsIndex, keys, locations) ==
    IF keys = <<>> THEN locations
    ELSE CollectLocations(recordsIndex, Tail(keys),
            Append(locations,
                   LocationOf(Head(keys), recordsIndex.vals[Head(keys)][1])))

\* A group without a first record makes firstRecord.MonitoringLocationName throw.
getMonitoringLocationsWithNamesFromIndex(recordsIndex) ==
    IF \E key \in DOMAIN recordsIndex.vals : recordsIndex.vals[key] = <<>>
    THEN [type |-> "throw", value |-> <<>>]
    ELSE [type |-> "return",
          value |-> SortByName(CollectLocations(recordsIndex, recordsIndex.keys, <<>>))]

(***************************************************************************)
(* parseCSVFile: the callbacks handed to Papa.parse.                       *)
(*                                                                         *)
(* A row as Papa delivers it (header: true) is the sequence of its         *)
(* <<name, value>> fields in header order.                                 *)
(***************************************************************************)
\* The object with the given fields; a later field of the same name wins.
ObjectOf(fields) ==
    [key \in {fields[i][1] : i \in 1..Len(fields)} |->
        fields[CHOOSE i \in 1..Len(fields) :
                  /\ fields[i][1] = key
                  /\ \A j \in (i + 1)..Len(fields) : fields[j][1] # key][2]]

\* Mutant: only the values are trimmed, the keys are kept.
TrimmedRow_KeepsKeys(row) ==
    ObjectOf([i \in 1..Len(row) |-> <<row[i][1], Trim(row[i][2])>>])

\* trimmedRow: every key and every (string) value trimmed.
TrimmedRow(row) ==
    ObjectOf([i \in 1..Len(row) |-> <<Trim(row[i][1]), Trim(row[i][2])>>])

\* trimmedData: the rows of a chunk as they are pushed onto allRecords.
TrimmedData(useWorker, data) ==
    [i \in 1..Len(data) |-> IF useWorker THEN TrimmedRow(data[i]) ELSE ObjectOf(data[i])]

\* Mutant: the chunk's records are put in front of those already held.
Accumulate_InFront(allRecords, trimmedData) == trimmedData \o allRecords

\* allRecords.push(...trimmedData)
Accumulate(allRecords, trimmedData) == allRecords \o trimmedData

requiredColumns == <<MonitoringLocationID, CharacteristicName, ResultValue>>

\* Mutant: a column counts as missing also when its value is "".
MissingColumns_Falsy(firstRecord) ==
    SelectSeq(requiredColumns, LAMBDA col : ~IsTruthy(firstRecord, col))

\* requiredColumns.filter((col) => !(col in firstRecord))
MissingColumns(firstRecord) ==
    SelectSeq(requiredColumns, LAMBDA col : ~HasProperty(firstRecord, col))

\* columns.join(", ")
RECURSIVE Join(_)
Join(columns) ==
    IF columns = <<>> THEN <<>>
    ELSE IF Len(columns) = 1 THEN columns[1]
    ELSE columns[1] \o <<", ">> \o Join(Tail(columns))

NoDataMessage == <<"No data found in CSV file">>

MissingColumnsMessage(missingColumns) ==
    <<"Missing required columns: ">> \o Join(missingColumns)

ParseFailedMessage(message) == <<"Failed to parse CSV: ">> \o message

\* The promise parseCSVFile returns.
Pending == [state |-> "pending", value |-> <<>>, reason |-> <<>>]

Resolved(value) == [state |-> "resolved", value |-> value, reason |-> <<>>]

Rejected(reason) == [state |-> "rejected", value |-> <<>>, reason |-> reason]

NoPromise == [state |-> "none", value |-> <<>>, reason |-> <<>>]

\* Mutant: no check for an empty allRecords.
Validate_NoEmptyCheck(allRecords) ==
    IF allRecords # <<>> /\ MissingColumns(allRecords[1]) # <<>>
    THEN Rejected(MissingColumnsMessage(MissingColumns(allRecords[1])))
    ELSE Resolved(allRecords)

\* The validation in complete: how the promise is settled.
Validate(allRecords) ==
    IF Len(allRecords) = 0 THEN Rejected(NoDataMessage)
    ELSE IF Len(MissingColumns(allRecords[1])) > 0
         THEN Rejected(MissingColumnsMessage(MissingColumns(allRecords[1])))
    ELSE Resolved(allRecords)

\* Math.floor((bytesProcessed / totalBytes) * 100)
Percentage(bytesProcessed, totalBytes) ==
    IF totalBytes = 0
    THEN (IF bytesProcessed = 0 THEN NaN ELSE Infinity(1))
    ELSE Finite((bytesProcessed * 100) \div totalBytes, 1)

\* The object handed to onProgress.
Progress(bytesProcessed, totalBytes, percentage) ==
    [bytesProcessed |-> bytesProcessed, totalBytes |-> totalBytes,
     percentage |-> percentage]

(***************************************************************************)
(* State.                                                                  *)
(*   The component's $state fields (CSVProcessor.svelte lines 37-49) and   *)
(*   its workerAvailable; the closure of the parseCSVFile call in flight   *)
(*   (source is the File Papa is decoding, chunks the number of chunk      *)
(*   callbacks so far, lastProgress the last object handed to onProgress,  *)
(*   delivered the rows Papa has handed to the chunk callback, in order);  *)
(*   fnPc, arg* and ret* hold one direct call of an exported function of   *)
(*   csv-parser: its arguments and what it returned.                       *)
(*   A nullable field is <<>> for null and <<x>> for the value x.          *)
(***************************************************************************)
VARIABLES file, records, recordsIndex, monitoringLocations, selectedLocation,
          result, isProcessing, error, parseProgress, totalRows, searchQuery,
          isDropdownOpen, workerAvailable,
          source, allRecords, totalBytes, bytesProcessed, promise, lastProgress,
          chunks, delivered,
          fnPc, argRecords, argIndex, argLocationId, retIndex, retResult,
          retLocations

uiVars == <<file, records, recordsIndex, monitoringLocations, selectedLocation,
            result, isProcessing, error, parseProgress, totalRows, searchQuery,
            isDropdownOpen, workerAvailable>>

parseVars == <<source, allRecords, totalBytes, bytesProcessed, promise,
               lastProgress, chunks, delivered>>

fnVars == <<fnPc, argRecords, argIndex, argLocationId, retIndex, retResult,
            retLocations>>

vars == <<uiVars, parseVars, fnVars>>

Null == <<>>

Some(x) == <<x>>

(***************************************************************************)
(* The inputs the calls are tried on.                                      *)
(***************************************************************************)
Loc1 == <<"LOC001">>

Loc2 == <<"LOC002">>

Loc9 == <<"LOC999">>

\* The object with the given <<name, value>> properties.
MakeRecord(fields) ==
    [key \in {f[1] : f \in fields} |-> (CHOOSE f \in fields : f[1] = key)[2]]

\* All sequences over S of length at most n.
SeqsUpTo(S, n) == UNION {[1..len -> S] : len \in 0..n}

\* ResultValue strings: well-formed, malformed, non-finite, overflowing.
ResultTexts ==
    { <<"1", "5", ".", "5">>,                 \* "15.5"
      <<"1", "6", ".", "5">>,                 \* "16.5"
      <<"-", "2">>,                           \* "-2"
      <<" ", "1", "7", ".", "5", " ">>,       \* " 17.5 "
      <<"1", "e", "3">>,                      \* "1e3", the largest finite number
      <<"-", "1", "e", "3">>,                 \* "-1e3"
      <<"1", "e", "4", "0", "0">>,            \* "1e400", overflows to Infinity
      <<"invalid">>,
      <<>>,                                   \* ""
      <<"Infinity">>,
      <<"-", "Infinity">>,
      <<"NaN">>,
      <<"1", "5", ".", "5", "abc">> }         \* "15.5abc"

\* CharacteristicName strings that are not exactly "Temperature, water".
OtherCharacteristics ==
    { <<"pH">>,
      <<"temperature, water">>,
      <<" ">> \o TemperatureWater \o <<" ">> }

\* The records a group of location id is made of.
GroupRecords(id) ==
    { MakeRecord({<<MonitoringLocationID, id>>, <<CharacteristicName, TemperatureWater>>,
                  <<ResultValue, t>>}) : t \in ResultTexts }
    \cup
    { MakeRecord({<<MonitoringLocationID, id>>, <<CharacteristicName, c>>,
                  <<ResultValue, <<"1", "5", ".", "5">> >>}) : c \in OtherCharacteristics }
    \cup
    { MakeRecord({<<MonitoringLocationID, id>>, <<CharacteristicName, TemperatureWater>>}),
      MakeRecord({<<MonitoringLocationID, id>>, <<ResultValue, <<"1", "5", ".", "5">> >>}) }

\* The indexes handed to the aggregator: a group for LOC001 of at most
\* maxGroup records and, in some, a group for LOC002.
Indexes(maxGroup) ==
    LET second == MakeRecord({<<MonitoringLocationID, Loc2>>,
                              <<CharacteristicName, TemperatureWater>>,
                              <<ResultValue, <<"2", "0", ".", "0">> >>})
    IN  UNION { { MapSet(EmptyMap, Loc1, g),
                  MapSet(MapSet(EmptyMap, Loc1, g), Loc2, <<second>>) }
                : g \in SeqsUpTo(GroupRecords(Loc1), maxGroup) }

\* The records handed to indexRecordsByLocation: ids present, empty, blank
\* and absent, and two payloads to tell equal ids apart.
IndexedRecords ==
    { MakeRecord({<<MonitoringLocationID, id>>, <<ResultValue, t>>})
        : id \in {Loc1, Loc2, <<>>, <<" ">>}, t \in {<<"1">>, <<"2">>} }
    \cup
    { MakeRecord({<<ResultValue, t>>}) : t \in {<<"1">>, <<"2">>} }

NoResult == TemperatureResult(<<>>, <<>>)

(***************************************************************************)
(* The files the component is given.  A file is its name, its size in      *)
(* bytes and what the decode of its content can deliver: the rows its      *)
(* chunks are made of, the cursors they report, and whether the read can   *)
(* fail.                                                                   *)
(***************************************************************************)
Loc3 == <<"LOC003">>

Text155 == <<"1", "5", ".", "5">>

RowA1 ==
    << <<MonitoringLocationID, Loc1>>, <<MonitoringLocationName, <<"Banana Lake">> >>,
       <<CharacteristicName, TemperatureWater>>, <<ResultValue, Text155>> >>

RowA2 ==
    << <<MonitoringLocationID, Loc2>>, <<MonitoringLocationName, <<>> >>,
       <<CharacteristicName, TemperatureWater>>, <<ResultValue, <<"invalid">> >> >>

RowB1 ==
    << <<MonitoringLocationID, Loc3>>, <<MonitoringLocationName, <<"Apple Lake">> >>,
       <<CharacteristicName, TemperatureWater>>, <<ResultValue, <<"2", "0", ".", "0">> >> >>

\* A row with an empty location id.
RowN1 ==
    << <<MonitoringLocationID, <<>> >>, <<CharacteristicName, TemperatureWater>>,
       <<ResultValue, <<"1">> >> >>

\* A row without ResultValue.
RowS1 ==
    << <<MonitoringLocationID, Loc1>>, <<CharacteristicName, TemperatureWater>> >>

FileA == [name |-> <<"a", ".csv">>, size |-> 200, rows |-> {RowA1, RowA2},
          cursors |-> {100}, fails |-> FALSE]

FileB == [name |-> <<"b", ".csv">>, size |-> 300, rows |-> {RowB1},
          cursors |-> {300}, fails |-> TRUE]

FileBad == [name |-> <<"bad", ".csv">>, size |-> 50, rows |-> {RowN1, RowS1},
            cursors |-> {25}, fails |-> FALSE]

FileTxt == [name |-> <<"notes", ".txt">>, size |-> 10, rows |-> {RowA1},
            cursors |-> {10}, fails |-> FALSE]

Files == {FileA, FileB, FileBad, FileTxt}

\* What the user can type into the search box.
Queries == {<<>>, <<" ">>, Loc1}

\* The files parseCSVFile alone is tried on: rows with all, two, one and
\* none of the required columns, a row with an empty value, a row with padded names and
\* values, a row with padded values only.
Padded(text) == <<" ">> \o text \o <<" ">>

\* The row "  LOC001  ,"  Temperature, water  ",  15.5  " under a plain header.
PaddedValuesRow ==
    << <<MonitoringLocationID, Padded(Loc1)>>,
       <<CharacteristicName, Padded(TemperatureWater)>>,
       <<ResultValue, Padded(Text155)>> >>

ParseRows ==
    { SelectSeq(<< <<MonitoringLocationID, Loc1>>,
                   <<CharacteristicName, TemperatureWater>>,
                   <<ResultValue, Text155>> >>,
                LAMBDA field : field[1] \in columns)
        : columns \in {{MonitoringLocationID, CharacteristicName, ResultValue},
                       {MonitoringLocationID, CharacteristicName},
                       {CharacteristicName}, {}} }
    \cup
    { << <<MonitoringLocationID, Loc2>>, <<CharacteristicName, TemperatureWater>>,
         <<ResultValue, <<>> >> >>,
      << <<Padded(MonitoringLocationID), Padded(Loc2)>>,
         <<Padded(CharacteristicName), Padded(TemperatureWater)>>,
         <<Padded(ResultValue), Padded(Text155)>> >>,
      PaddedValuesRow }

ParseFiles ==
    { [name |-> <<"p", ".csv">>, size |-> size, rows |-> ParseRows,
       cursors |-> 0..size, fails |-> fails]
        : size \in {0, 3}, fails \in BOOLEAN }

(***************************************************************************)
(* The component: CSVProcessor.svelte.                                     *)
(***************************************************************************)
\* selectedFile.name.endsWith('.csv')
EndsWithCsv(name) == name # <<>> /\ name[Len(name)] = ".csv"

\* The lower-case form of the words of the model that have upper-case letters.
LowerCaseWords ==
    << <<"LOC001", "loc001">>, <<"LOC002", "loc002">>, <<"LOC003", "loc003">>,
       <<"Apple Lake", "apple lake">>, <<"Banana Lake", "banana lake">> >>

toLowerCase(text) ==
    [i \in 1..Len(text) |->
        IF \E j \in 1..Len(LowerCaseWords) : LowerCaseWords[j][1] = text[i]
        THEN LowerCaseWords[CHOOSE j \in 1..Len(LowerCaseWords) :
                               LowerCaseWords[j][1] = text[i]][2]
        ELSE text[i]]

\* text.includes(query), on whole fragments.
Includes(text, query) ==
    \E i \in 0..(Len(text) - Len(query)) : SubSeq(text, i + 1, i + Len(query)) = query

hasData == Len(records) > 0

filteredLocations ==
    IF Trim(searchQuery) = <<>>
    THEN monitoringLocations
    ELSE SelectSeq(monitoringLocations,
                   LAMBDA loc : \/ Includes(toLowerCase(loc.name), toLowerCase(searchQuery))
                                \/ Includes(toLowerCase(loc.id), toLowerCase(searchQuery)))

\* The state after construction: no file, nothing parsed.
UiInit ==
    /\ file = Null
    /\ records = <<>>
    /\ recordsIndex = EmptyMap
    /\ monitoringLocations = <<>>
    /\ selectedLocation = <<>>
    /\ result = Null
    /\ isProcessing = FALSE
    /\ error = Null
    /\ parseProgress = Zero
    /\ totalRows = 0
    /\ searchQuery = <<>>
    /\ isDropdownOpen = FALSE

\* No parseCSVFile call in flight.
ParseIdle ==
    /\ source = Null
    /\ allRecords = <<>>
    /\ totalBytes = 0
    /\ bytesProcessed = 0
    /\ promise = NoPromise
    /\ lastProgress = Null
    /\ chunks = 0
    /\ delivered = <<>>

\* No direct call of an exported function.
FnIdle ==
    /\ fnPc = "none"
    /\ argRecords = <<>>
    /\ argIndex = EmptyMap
    /\ argLocationId = <<>>
    /\ retIndex = EmptyMap
    /\ retResult = Return(TemperatureResult(<<>>, <<>>))
    /\ retLocations = Return(<<>>)

\* handleFileChange when the input holds no file: nothing happens.
HandleFileChangeNoFile ==
    /\ ~isProcessing
    /\ UNCHANGED vars

\* handleFileChange with a file that is not named *.csv.
HandleFileChangeNotCsv(selectedFile) ==
    /\ ~isProcessing
    /\ ~EndsWithCsv(selectedFile.name)
    /\ error' = Some(<<"Please select a CSV file">>)
    /\ UNCHANGED <<file, records, recordsIndex, monitoringLocations, selectedLocation,
                   result, isProcessing, parseProgress, totalRows, searchQuery,
                   isDropdownOpen, workerAvailable>>
    /\ UNCHANGED <<parseVars, fnVars>>

\* Mutant: the file input is not disabled while a file is processed.
HandleFileChange_WhileProcessing(selectedFile) ==
    /\ EndsWithCsv(selectedFile.name)
    /\ file' = Some(selectedFile)
    /\ error' = Null
    /\ result' = Null
    /\ selectedLocation' = <<>>
    /\ isProcessing' = TRUE
    /\ parseProgress' = Zero
    /\ totalRows' = 0
    /\ source' = Some(selectedFile)
    /\ allRecords' = <<>>
    /\ totalBytes' = selectedFile.size
    /\ bytesProcessed' = 0
    /\ promise' = Pending
    /\ lastProgress' = Null
    /\ chunks' = 0
    /\ delivered' = <<>>
    /\ UNCHANGED <<records, recordsIndex, monitoringLocations, searchQuery,
                   isDropdownOpen, workerAvailable>>
    /\ UNCHANGED fnVars

\* handleFileChange with a *.csv file, up to the await in processFile: the
\* fields are cleared, processFile starts and parseCSVFile hands the file to
\* Papa.parse.
HandleFileChange(selectedFile) ==
    /\ ~isProcessing
    /\ EndsWithCsv(selectedFile.name)
    /\ file' = Some(selectedFile)
    /\ error' = Null
    /\ result' = Null
    /\ selectedLocation' = <<>>
    /\ isProcessing' = TRUE
    /\ parseProgress' = Zero
    /\ totalRows' = 0
    /\ source' = Some(selectedFile)
    /\ allRecords' = <<>>
    /\ totalBytes' = selectedFile.size
    /\ bytesProcessed' = 0
    /\ promise' = Pending
    /\ lastProgress' = Null
    /\ chunks' = 0
    /\ delivered' = <<>>
    /\ UNCHANGED <<records, recordsIndex, monitoringLocations, searchQuery,
                   isDropdownOpen, workerAvailable>>
    /\ UNCHANGED fnVars

\* Mutant: the cursor is not reported, the previous bytesProcessed is.
ChunkProgress_Stale(cursor) ==
    Progress(bytesProcessed, totalBytes, Percentage(bytesProcessed, totalBytes))

\* The object the chunk callback hands to onProgress for results.meta.cursor.
ChunkProgress(cursor) ==
    Progress(cursor, totalBytes, Percentage(cursor, totalBytes))

\* The chunk callback: Papa delivers the rows data and, in cursor, how far
\* it has read (<<>> when results.meta.cursor is undefined).  The
\* component's onProgress stores the percentage and estimates the rows.
Chunk(data, cursor) ==
    /\ promise.state = "pending"
    /\ chunks < MaxChunks
    /\ chunks' = chunks + 1
    /\ delivered' = delivered \o data
    /\ allRecords' = IF Len(data) > 0
                     THEN Accumulate(allRecords, TrimmedData(workerAvailable, data))
                     ELSE allRecords
    /\ IF cursor # Null
       THEN /\ bytesProcessed' = cursor[1]
            /\ lastProgress' = Some(ChunkProgress(cursor[1]))
            /\ parseProgress' = ChunkProgress(cursor[1]).percentage
            /\ totalRows' = totalBytes \div 100
       ELSE UNCHANGED <<bytesProcessed, lastProgress, parseProgress, totalRows>>
    /\ UNCHANGED <<file, records, recordsIndex, monitoringLocations, selectedLocation,
                   result, isProcessing, error, searchQuery, isDropdownOpen,
                   workerAvailable>>
    /\ UNCHANGED <<source, totalBytes, promise>>
    /\ UNCHANGED fnVars

\* Mutant: complete settles the promise without the final progress update.
Complete_NoFinalProgress ==
    /\ promise.state = "pending"
    /\ UNCHANGED <<lastProgress, parseProgress, totalRows>>
    /\ promise' = Validate(allRecords)
    /\ UNCHANGED <<file, records, recordsIndex, monitoringLocations, selectedLocation,
                   result, isProcessing, error, searchQuery, isDropdownOpen,
                   workerAvailable>>
    /\ UNCHANGED <<source, allRecords, totalBytes, bytesProcessed, chunks, delivered>>
    /\ UNCHANGED fnVars

\* The complete callback: the final progress update, then the validation
\* that settles the promise.
Complete ==
    /\ promise.state = "pending"
    /\ lastProgress' = Some(Progress(totalBytes, totalBytes, Finite(100, 1)))
    /\ parseProgress' = Finite(100, 1)
    /\ totalRows' = totalBytes \div 100
    /\ promise' = Validate(allRecords)
    /\ UNCHANGED <<file, records, recordsIndex, monitoringLocations, selectedLocation,
                   result, isProcessing, error, searchQuery, isDropdownOpen,
                   workerAvailable>>
    /\ UNCHANGED <<source, allRecords, totalBytes, bytesProcessed, chunks, delivered>>
    /\ UNCHANGED fnVars

\* The error callback: the file cannot be read.
Error ==
    /\ promise.state = "pending"
    /\ source[1].fails
    /\ promise' = Rejected(ParseFailedMessage(<<"read failed">>))
    /\ UNCHANGED uiVars
    /\ UNCHANGED <<source, allRecords, totalBytes, bytesProcessed, lastProgress, chunks,
                   delivered>>
    /\ UNCHANGED fnVars

\* Mutant: no check that the file has a monitoring location.
ProcessSucceeds_NoLocationCheck(parsedRecords) ==
    /\ Len(parsedRecords) # 0
    /\ getMonitoringLocationsWithNamesFromIndex(
           indexRecordsByLocation(parsedRecords)).type = "return"

\* Whether the try block of processFile runs to its end with parsedRecords.
ProcessSucceeds(parsedRecords) ==
    /\ Len(parsedRecords) # 0
    /\ getMonitoringLocationsWithNamesFromIndex(
           indexRecordsByLocation(parsedRecords)).type = "return"
    /\ Len(getMonitoringLocationsWithNamesFromIndex(
               indexRecordsByLocation(parsedRecords)).value) # 0

\* Mutant: the catch block leaves the fields as they are.
AfterCatch_KeepsState(field, empty) == field

\* What the catch block of processFile stores in records, recordsIndex and
\* monitoringLocations.
AfterCatch(field, empty) == empty

\* Mutant: the catch block does not set error.
ProcessFileResume_NoError ==
    /\ isProcessing
    /\ promise.state \in {"resolved", "rejected"}
    /\ IF promise.state = "resolved" /\ ProcessSucceeds(promise.value)
       THEN /\ records' = promise.value
            /\ recordsIndex' = indexRecordsByLocation(promise.value)
            /\ monitoringLocations' =
                  getMonitoringLocationsWithNamesFromIndex(
                      indexRecordsByLocation(promise.value)).value
            /\ selectedLocation' = <<>>
            /\ searchQuery' = <<>>
            /\ result' = Null
            /\ UNCHANGED error
       ELSE /\ UNCHANGED error
            /\ records' = AfterCatch(records, <<>>)
            /\ recordsIndex' = AfterCatch(recordsIndex, EmptyMap)
            /\ monitoringLocations' = AfterCatch(monitoringLocations, <<>>)
            /\ UNCHANGED <<selectedLocation, searchQuery, result>>
    /\ isProcessing' = FALSE
    /\ parseProgress' = Zero
    /\ totalRows' = 0
    /\ source' = Null
    /\ allRecords' = <<>>
    /\ totalBytes' = 0
    /\ bytesProcessed' = 0
    /\ promise' = NoPromise
    /\ lastProgress' = Null
    /\ chunks' = 0
    /\ delivered' = <<>>
    /\ UNCHANGED <<file, isDropdownOpen, workerAvailable>>
    /\ UNCHANGED fnVars

\* processFile after the await: the rest of the try block, or the catch
\* block, and the finally block.
ProcessFileResume ==
    /\ isProcessing
    /\ promise.state \in {"resolved", "rejected"}
    /\ IF promise.state = "resolved" /\ ProcessSucceeds(promise.value)
       THEN /\ records' = promise.value
            /\ recordsIndex' = indexRecordsByLocation(promise.value)
            /\ monitoringLocations' =
                  getMonitoringLocationsWithNamesFromIndex(
                      indexRecordsByLocation(promise.value)).value
            /\ selectedLocation' = <<>>
            /\ searchQuery' = <<>>
            /\ result' = Null
            /\ UNCHANGED error
       ELSE /\ error' = Some(<<"Failed to process CSV file">>)
            /\ records' = AfterCatch(records, <<>>)
            /\ recordsIndex' = AfterCatch(recordsIndex, EmptyMap)
            /\ monitoringLocations' = AfterCatch(monitoringLocations, <<>>)
            /\ UNCHANGED <<selectedLocation, searchQuery, result>>
    /\ isProcessing' = FALSE
    /\ parseProgress' = Zero
    /\ totalRows' = 0
    /\ source' = Null
    /\ allRecords' = <<>>
    /\ totalBytes' = 0
    /\ bytesProcessed' = 0
    /\ promise' = NoPromise
    /\ lastProgress' = Null
    /\ chunks' = 0
    /\ delivered' = <<>>
    /\ UNCHANGED <<file, isDropdownOpen, workerAvailable>>
    /\ UNCHANGED fnVars

\* Mutant: a result with count 0 is stored like any other.
calculateAverage_KeepsZeroCount(locationId) ==
    IF locationId = <<>> \/ Len(records) = 0 THEN <<error, result>>
    ELSE LET calculatedResult ==
                 calculateTemperatureAverageFromIndex(recordsIndex, locationId)
         IN  IF calculatedResult.type = "throw"
             THEN <<Some(<<"Failed to calculate average">>), Null>>
             ELSE <<Null, Some(calculatedResult.value)>>

\* What calculateAverage stores in <<error, result>> for the location id.
calculateAverage(locationId) ==
    IF locationId = <<>> \/ Len(records) = 0 THEN <<error, result>>
    ELSE LET calculatedResult ==
                 calculateTemperatureAverageFromIndex(recordsIndex, locationId)
         IN  IF calculatedResult.type = "throw"
             THEN <<Some(<<"Failed to calculate average">>), Null>>
             ELSE IF calculatedResult.value.count = 0
             THEN <<Some(<<"No temperature data found for location: ">> \o locationId),
                    Null>>
             ELSE <<Null, Some(calculatedResult.value)>>

\* A click on a location of the dropdown list.
SelectLocation(location) ==
    /\ hasData /\ ~isProcessing
    /\ isDropdownOpen
    /\ \E i \in 1..Len(filteredLocations) : filteredLocations[i] = location
    /\ selectedLocation' = location.id
    /\ searchQuery' = location.displayName
    /\ isDropdownOpen' = FALSE
    /\ error' = calculateAverage(location.id)[1]
    /\ result' = calculateAverage(location.id)[2]
    /\ UNCHANGED <<file, records, recordsIndex, monitoringLocations, isProcessing,
                   parseProgress, totalRows, workerAvailable>>
    /\ UNCHANGED <<parseVars, fnVars>>

\* Typing into the search box (bind:value={searchQuery}).
SearchInput(query) ==
    /\ hasData /\ ~isProcessing
    /\ searchQuery' = query
    /\ UNCHANGED <<file, records, recordsIndex, monitoringLocations, selectedLocation,
                   result, isProcessing, error, parseProgress, totalRows,
                   isDropdownOpen, workerAvailable>>
    /\ UNCHANGED <<parseVars, fnVars>>

handleSearchFocus ==
    /\ hasData /\ ~isProcessing
    /\ isDropdownOpen' = TRUE
    /\ UNCHANGED <<file, records, recordsIndex, monitoringLocations, selectedLocation,
                   result, isProcessing, error, parseProgress, totalRows,
                   searchQuery, workerAvailable>>
    /\ UNCHANGED <<parseVars, fnVars>>

\* A click outside the dropdown.
handleClickOutside ==
    /\ isDropdownOpen' = FALSE
    /\ UNCHANGED <<file, records, recordsIndex, monitoringLocations, selectedLocation,
                   result, isProcessing, error, parseProgress, totalRows,
                   searchQuery, workerAvailable>>
    /\ UNCHANGED <<parseVars, fnVars>>

clearSearch ==
    /\ hasData /\ ~isProcessing
    /\ searchQuery # <<>>
    /\ searchQuery' = <<>>
    /\ selectedLocation' = <<>>
    /\ result' = Null
    /\ isDropdownOpen' = TRUE
    /\ UNCHANGED <<file, records, recordsIndex, monitoringLocations, isProcessing,
                   error, parseProgress, totalRows, workerAvailable>>
    /\ UNCHANGED <<parseVars, fnVars>>

\* Mutant: the Reset button is not disabled while a file is processed.
reset_WhileProcessing ==
    /\ file # Null
    /\ file' = Null
    /\ records' = <<>>
    /\ recordsIndex' = EmptyMap
    /\ monitoringLocations' = <<>>
    /\ selectedLocation' = <<>>
    /\ result' = Null
    /\ error' = Null
    /\ UNCHANGED <<isProcessing, parseProgress, totalRows, searchQuery,
                   isDropdownOpen, workerAvailable>>
    /\ UNCHANGED <<parseVars, fnVars>>

reset ==
    /\ file # Null /\ ~isProcessing
    /\ file' = Null
    /\ records' = <<>>
    /\ recordsIndex' = EmptyMap
    /\ monitoringLocations' = <<>>
    /\ selectedLocation' = <<>>
    /\ result' = Null
    /\ error' = Null
    /\ UNCHANGED <<isProcessing, parseProgress, totalRows, searchQuery,
                   isDropdownOpen, workerAvailable>>
    /\ UNCHANGED <<parseVars, fnVars>>

\* The rows and cursors Papa can deliver from the file being decoded.
SourceRows == IF source = Null THEN {} ELSE source[1].rows

SourceCursors == IF source = Null THEN {} ELSE source[1].cursors

Init ==
    /\ UiInit
    /\ workerAvailable \in BOOLEAN
    /\ ParseIdle
    /\ FnIdle

Next ==
    \/ HandleFileChangeNoFile
    \/ \E selectedFile \in Files : HandleFileChangeNotCsv(selectedFile)
    \/ \E selectedFile \in Files : HandleFileChange(selectedFile)
    \/ \E data \in SeqsUpTo(SourceRows, MaxRows - Len(allRecords)),
          cursor \in {Null} \cup {Some(c) : c \in SourceCursors} : Chunk(data, cursor)
    \/ Complete
    \/ Error
    \/ ProcessFileResume
    \/ \E i \in 1..Len(monitoringLocations) : SelectLocation(monitoringLocations[i])
    \/ \E query \in Queries : SearchInput(query)
    \/ handleSearchFocus
    \/ handleClickOutside
    \/ clearSearch
    \/ reset

Spec == Init /\ [][Next]_vars

(***************************************************************************)
(* SpecParse: one parseCSVFile call, made by processFile for a file just   *)
(* selected in a fresh component, followed to the end of processFile.      *)
(***************************************************************************)
InitParse ==
    /\ \E selectedFile \in ParseFiles :
          /\ file = Some(selectedFile)
          /\ source = Some(selectedFile)
          /\ totalBytes = selectedFile.size
    /\ records = <<>>
    /\ recordsIndex = EmptyMap
    /\ monitoringLocations = <<>>
    /\ selectedLocation = <<>>
    /\ result = Null
    /\ isProcessing = TRUE
    /\ error = Null
    /\ parseProgress = Zero
    /\ totalRows = 0
    /\ searchQuery = <<>>
    /\ isDropdownOpen = FALSE
    /\ workerAvailable \in BOOLEAN
    /\ allRecords = <<>>
    /\ bytesProcessed = 0
    /\ promise = Pending
    /\ lastProgress = Null
    /\ chunks = 0
    /\ delivered = <<>>
    /\ FnIdle

NextParse ==
    \/ \E data \in SeqsUpTo(SourceRows, MaxRows - Len(allRecords)),
          cursor \in {Null} \cup {Some(c) : c \in SourceCursors} : Chunk(data, cursor)
    \/ Complete
    \/ Error
    \/ ProcessFileResume

SpecParse == InitParse /\ [][NextParse]_vars

(***************************************************************************)
(* SpecAggregate: one call of calculateTemperatureAverageFromIndex.        *)
(***************************************************************************)
InitAggregate ==
    /\ fnPc = "call"
    /\ argRecords = <<>>
    /\ argIndex \in Indexes(MaxGroup)
    /\ argLocationId \in {Loc1, Loc2, Loc9}
    /\ retIndex = EmptyMap
    /\ retResult = Return(NoResult)
    /\ retLocations = Return(<<>>)
    /\ UiInit
    /\ workerAvailable = FALSE
    /\ ParseIdle

Aggregate ==
    /\ fnPc = "call"
    /\ retResult' = calculateTemperatureAverageFromIndex(argIndex, argLocationId)
    /\ fnPc' = "returned"
    /\ UNCHANGED <<argRecords, argIndex, argLocationId, retIndex, retLocations>>
    /\ UNCHANGED <<uiVars, parseVars>>

NextAggregate == Aggregate

SpecAggregate == InitAggregate /\ [][NextAggregate]_vars

(***************************************************************************)
(* SpecIndex: one call of indexRecordsByLocation.                          *)
(***************************************************************************)
InitIndex ==
    /\ fnPc = "call"
    /\ argRecords \in SeqsUpTo(IndexedRecords, MaxRecords)
    /\ argIndex = EmptyMap
    /\ argLocationId = <<>>
    /\ retIndex = EmptyMap
    /\ retResult = Return(NoResult)
    /\ retLocations = Return(<<>>)
    /\ UiInit
    /\ workerAvailable = FALSE
    /\ ParseIdle

Index ==
    /\ fnPc = "call"
    /\ retIndex' = indexRecordsByLocation(argRecords)
    /\ fnPc' = "returned"
    /\ UNCHANGED <<argRecords, argIndex, argLocationId, retResult, retLocations>>
    /\ UNCHANGED <<uiVars, parseVars>>

NextIndex == Index

SpecIndex == InitIndex /\ [][NextIndex]_vars

(***************************************************************************)
(* SpecLocations: one call of getMonitoringLocationsWithNamesFromIndex on  *)
(* the index of a sequence of records.                                     *)
(***************************************************************************)
\* Records of three locations, with a name, an empty name or no name.
NamedRecords ==
    { ObjectOf(<< <<MonitoringLocationID, id>>, <<MonitoringLocationName, name>> >>)
        : id \in {Loc1, Loc2, Loc3}, name \in {<<>>, <<"Apple Lake">>, <<"Zebra Lake">>} }
    \cup { ObjectOf(<< <<MonitoringLocationID, id>> >>) : id \in {Loc1, Loc2, Loc3} }

InitLocations ==
    /\ fnPc = "call"
    /\ argRecords \in SeqsUpTo(NamedRecords, MaxRecords)
    /\ argIndex = indexRecordsByLocation(argRecords)
    /\ argLocationId = <<>>
    /\ retIndex = EmptyMap
    /\ retResult = Return(NoResult)
    /\ retLocations = Return(<<>>)
    /\ UiInit
    /\ workerAvailable = FALSE
    /\ ParseIdle

Locations ==
    /\ fnPc = "call"
    /\ retLocations' = getMonitoringLocationsWithNamesFromIndex(argIndex)
    /\ fnPc' = "returned"
    /\ UNCHANGED <<argRecords, argIndex, argLocationId, retIndex, retResult>>
    /\ UNCHANGED <<uiVars, parseVars>>

NextLocations == Locations

SpecLocations == InitLocations /\ [][NextLocations]_vars

(***************************************************************************)
(* Properties of calculateTemperatureAverageFromIndex (SpecAggregate).     *)
(***************************************************************************)
\* The group stored under the requested id, empty when the id is no key.
RequestedGroup ==
    IF argLocationId \in DOMAIN argIndex.vals
    THEN argIndex.vals[argLocationId]
    ELSE <<>>

\* The record names exactly "Temperature, water".
NamesWaterTemperature(rec) ==
    /\ CharacteristicName \in DOMAIN rec
    /\ rec[CharacteristicName] = <<"Temperature, water">>

\* The number read from the record's ResultValue.
ParsedValue(rec) == parseFloat(ToStringOf(rec, ResultValue))

\* The sequence f(s[1]), ..., f(s[Len(s)]).
MapSeq(s, f(_)) == [i \in 1..Len(s) |-> f(s[i])]

\* C1: validValues is the parsed ResultValue of exactly the records of the
\* requested group whose CharacteristicName is exactly "Temperature, water"
\* and whose value is accepted (finite), in group order; count is its length
\* and monitoringLocationId is the requested id.
C1_ValidValuesAreTheGroupsWaterTemperatures ==
    fnPc = "returned" =>
        /\ retResult.type = "return"
        /\ retResult.value.validValues =
              MapSeq(SelectSeq(RequestedGroup,
                               LAMBDA rec : /\ NamesWaterTemperature(rec)
                                            /\ ParsedValue(rec).k = "fin"),
                     ParsedValue)
        /\ retResult.value.count = Len(retResult.value.validValues)
        /\ retResult.value.monitoringLocationId = argLocationId

\* C1 witness: a group of two water temperatures in an order that is not
\* ascending, beside a group of another location.
C1_Witness ==
    /\ fnPc = "returned"
    /\ argLocationId = Loc1
    /\ Loc2 \in DOMAIN argIndex.vals
    /\ Len(RequestedGroup) = 2
    /\ retResult.value.count = 2
    /\ retResult.value.validValues[1] # retResult.value.validValues[2]
    /\ retResult.value.validValues[1] = ParsedValue(RequestedGroup[1])

\* A string that is a decimal literal from its first to its last character
\* (white space around it aside):  [+-] (digits [. [digits]] | . digits) [exp].
IsDecimalLiteral(text) ==
    LET t      == Trim(text)
        u      == IF t # <<>> /\ Head(t) \in {"+", "-"} THEN Tail(t) ELSE t
        ip     == DigitRun(u)
        a      == Drop(u, Len(ip))
        hasDot == a # <<>> /\ Head(a) = "."
        fp     == IF hasDot THEN DigitRun(Tail(a)) ELSE <<>>
        b      == IF hasDot THEN Drop(a, 1 + Len(fp)) ELSE a
        c      == IF b # <<>> THEN Tail(b) ELSE <<>>
        ed     == IF c # <<>> /\ Head(c) \in {"+", "-"} THEN Tail(c) ELSE c
    IN  /\ Len(ip) + Len(fp) > 0
        /\ \/ b = <<>>
           \/ /\ Head(b) \in {"e", "E"}
              /\ ed # <<>>
              /\ DigitRun(ed) = ed

\* C2: a ResultValue is accepted only if the string parses as a decimal
\* number and the result is finite; malformed strings, a numeric prefix
\* followed by other characters among them, are dropped.
C2_OnlyDecimalStringsAccepted ==
    fnPc = "returned" =>
        retResult.value.count =
            Len(SelectSeq(RequestedGroup,
                          LAMBDA rec : /\ NamesWaterTemperature(rec)
                                       /\ IsDecimalLiteral(ToStringOf(rec, ResultValue))
                                       /\ ParsedValue(rec).k = "fin"))

\* The sum of a sequence of numbers, added from the left.
RECURSIVE SumOf(_)
SumOf(values) ==
    IF values = <<>> THEN Zero
    ELSE Plus(SumOf(SubSeq(values, 1, Len(values) - 1)), values[Len(values)])

\* C3: average is the sum of validValues divided by count when count > 0
\* (average * count = sum; an overflowed sum gives that infinity), exactly 0
\* when count = 0, and never NaN.
C3_AverageIsTheMean ==
    fnPc = "returned" =>
        LET r   == retResult.value
            sum == SumOf(r.validValues)
        IN  /\ r.average.k # "nan"
            /\ r.count = 0 => r.average = [k |-> "fin", n |-> 0, d |-> 1]
            /\ r.count > 0 /\ sum.k = "fin" =>
                  /\ r.average.k = "fin"
                  /\ r.average.n * r.count * sum.d = sum.n * r.average.d
            /\ r.count > 0 /\ sum.k # "fin" => r.average = sum

\* C3 witness: the mean of two different values that is neither of them.
C3_Witness ==
    /\ fnPc = "returned"
    /\ retResult.value.count = 2
    /\ retResult.value.average.k = "fin"
    /\ retResult.value.average # retResult.value.validValues[1]
    /\ retResult.value.average # retResult.value.validValues[2]

\* C4: the call never throws; an id that is no key of the index yields
\* average 0, count 0 and no validValues; a record without CharacteristicName
\* or without ResultValue contributes nothing.
C4_NeverThrows ==
    fnPc = "returned" =>
        /\ retResult.type = "return"
        /\ argLocationId \notin DOMAIN argIndex.vals =>
              retResult.value = [monitoringLocationId |-> argLocationId,
                                 average     |-> [k |-> "fin", n |-> 0, d |-> 1],
                                 count       |-> 0,
                                 validValues |-> <<>>]
        /\ retResult.value.count <=
              Cardinality({i \in 1..Len(RequestedGroup) :
                              /\ CharacteristicName \in DOMAIN RequestedGroup[i]
                              /\ ResultValue \in DOMAIN RequestedGroup[i]})

\* C4 witness: an id that is no key of an index holding records.
C4_Witness ==
    /\ fnPc = "returned"
    /\ argLocationId = Loc9
    /\ Len(argIndex.keys) = 2
    /\ \E i \in 1..Len(argIndex.vals[Loc1]) :
          ResultValue \notin DOMAIN argIndex.vals[Loc1][i]

\* C4 second case: a group whose records lack a required key.
C4_WitnessMissingKeys ==
    /\ fnPc = "returned"
    /\ argLocationId = Loc1
    /\ Len(RequestedGroup) = 2
    /\ ResultValue \notin DOMAIN RequestedGroup[1]
    /\ CharacteristicName \notin DOMAIN RequestedGroup[2]
    /\ retResult.value.count = 0

(***************************************************************************)
(* Properties of indexRecordsByLocation (SpecIndex).                       *)
(***************************************************************************)
\* The records of argRecords whose MonitoringLocationID is present and id.
RecordsOf(id) ==
    SelectSeq(argRecords,
              LAMBDA rec : /\ MonitoringLocationID \in DOMAIN rec
                           /\ rec[MonitoringLocationID] = id)

\* The sum of the lengths of the groups stored under the given keys.
RECURSIVE TotalLength(_, _)
TotalLength(map, keys) ==
    IF keys = {} THEN 0
    ELSE LET key == CHOOSE x \in keys : TRUE
         IN  Len(map.vals[key]) + TotalLength(map, keys \ {key})

\* C5: every group of the index is the subsequence of the input with that
\* MonitoringLocationID, in input order, nothing dropped or duplicated.
C5_GroupIsSubsequence ==
    fnPc = "returned" =>
        \A id \in DOMAIN retIndex.vals : retIndex.vals[id] = RecordsOf(id)

\* C5 witness: a group of two different records with a record of another
\* location between them.
C5_Witness ==
    /\ fnPc = "returned"
    /\ Len(argRecords) = 3
    /\ Loc1 \in DOMAIN retIndex.vals
    /\ Loc2 \in DOMAIN retIndex.vals
    /\ Len(retIndex.vals[Loc1]) = 2
    /\ retIndex.vals[Loc1][1] # retIndex.vals[Loc1][2]
    /\ argRecords[2] = retIndex.vals[Loc2][1]

\* C6: the groups hold as many records as the input has records with a
\* present, non-empty MonitoringLocationID, and every such id is a key.
C6_IndexIsComplete ==
    fnPc = "returned" =>
        /\ TotalLength(retIndex, DOMAIN retIndex.vals) =
              Cardinality({i \in 1..Len(argRecords) :
                              /\ MonitoringLocationID \in DOMAIN argRecords[i]
                              /\ argRecords[i][MonitoringLocationID] # <<>>})
        /\ \A i \in 1..Len(argRecords) :
              (/\ MonitoringLocationID \in DOMAIN argRecords[i]
               /\ argRecords[i][MonitoringLocationID] # <<>>)
              => argRecords[i][MonitoringLocationID] \in DOMAIN retIndex.vals

\* C6 witness: three records, one of them without an id to index, the other
\* two the same record twice.
C6_Witness ==
    /\ fnPc = "returned"
    /\ Len(argRecords) = 3
    /\ argRecords[1] = argRecords[3]
    /\ MonitoringLocationID \notin DOMAIN argRecords[2]
    /\ TotalLength(retIndex, DOMAIN retIndex.vals) = 2

\* C7: "" is never a key and no group holds a record whose
\* MonitoringLocationID is absent or "".
C7_NoEmptyId ==
    fnPc = "returned" =>
        /\ <<>> \notin DOMAIN retIndex.vals
        /\ \A id \in DOMAIN retIndex.vals :
              \A i \in 1..Len(retIndex.vals[id]) :
                 /\ MonitoringLocationID \in DOMAIN retIndex.vals[id][i]
                 /\ retIndex.vals[id][i][MonitoringLocationID] # <<>>

\* C7 witness: an input with an empty id, an absent id and an indexed id.
C7_Witness ==
    /\ fnPc = "returned"
    /\ Len(argRecords) = 3
    /\ MonitoringLocationID \in DOMAIN argRecords[1]
    /\ argRecords[1][MonitoringLocationID] = <<>>
    /\ MonitoringLocationID \notin DOMAIN argRecords[2]
    /\ Len(retIndex.keys) = 1

(***************************************************************************)
(* Properties of parseCSVFile (SpecParse).                                 *)
(***************************************************************************)
\* The promise was settled by the complete callback.
SettledByComplete ==
    /\ promise.state \in {"resolved", "rejected"}
    /\ ~(promise.state = "rejected" /\ Head(promise.reason) = "Failed to parse CSV: ")

\* The promise was rejected with the schema error.
IsSchemaError ==
    /\ promise.state = "rejected"
    /\ Head(promise.reason) = "Missing required columns: "

\* The required column name is not a property of the record.
Lacks(rec, column) == <<column>> \notin DOMAIN rec

\* C8: once the decode has completed, parseCSVFile fails with the schema
\* error exactly when the first accumulated record lacks one of
\* MonitoringLocationID, CharacteristicName, ResultValue as a property (an
\* empty value counts as present); the message names exactly the missing
\* ones; later records are not looked at.
C8_SchemaErrorIffFirstRecordLacksKey ==
    SettledByComplete =>
        /\ IsSchemaError <=>
              /\ allRecords # <<>>
              /\ \E column \in {"MonitoringLocationID", "CharacteristicName", "ResultValue"} :
                    Lacks(allRecords[1], column)
        /\ IsSchemaError =>
              \A column \in {"MonitoringLocationID", "CharacteristicName", "ResultValue"} :
                 (\E i \in 2..Len(promise.reason) : promise.reason[i] = column)
                 <=> Lacks(allRecords[1], column)

\* C8 witness: a schema error naming two of the three columns, the first
\* record holding the third.
C8_Witness ==
    /\ IsSchemaError
    /\ Len(allRecords) = 2
    /\ ~Lacks(allRecords[1], "CharacteristicName")
    /\ promise.reason = <<"Missing required columns: ", "MonitoringLocationID", ", ",
                          "ResultValue">>

\* C8 second case: a later record without the required keys, and a first
\* record with an empty value, cause no schema error.
C8_WitnessLaterRecord ==
    /\ promise.state = "resolved"
    /\ Len(allRecords) = 2
    /\ allRecords[1][ResultValue] = <<>>
    /\ Lacks(allRecords[2], "MonitoringLocationID")
    /\ Lacks(allRecords[2], "ResultValue")

\* C9: when the decode completes with no record accumulated the promise is
\* rejected with "No data found in CSV file" and never resolved with an empty
\* array; with a first record that has the required keys it is resolved
\* with all accumulated records.
C9_EmptyInputRejected ==
    SettledByComplete =>
        /\ allRecords = <<>> =>
              /\ promise.state = "rejected"
              /\ promise.reason = <<"No data found in CSV file">>
        /\ promise.state = "resolved" =>
              /\ promise.value # <<>>
              /\ promise.value = allRecords
        /\ (/\ allRecords # <<>>
            /\ \A column \in {"MonitoringLocationID", "CharacteristicName", "ResultValue"} :
                  ~Lacks(allRecords[1], column))
           => promise.state = "resolved"

\* C9 witness: completion after chunks that carried no rows.
C9_Witness ==
    /\ promise.state = "rejected"
    /\ promise.reason = <<"No data found in CSV file">>
    /\ chunks = 2
    /\ allRecords = <<>>

\* C9 second case: resolved with two accumulated records.
C9_WitnessResolved ==
    /\ promise.state = "resolved"
    /\ Len(promise.value) = 2
    /\ chunks = 2

(***************************************************************************)
(* Properties of the component (Spec).                                     *)
(***************************************************************************)
\* The step that ends a failed ingestion: processFile leaves through its
\* catch block.
FailedIngestionEnds == isProcessing /\ ~isProcessing' /\ error' # Null

\* C10 as stated: a failed ingestion of a new file leaves records,
\* recordsIndex and monitoringLocations of an earlier successful file as
\* they were.
C10_FailedIngestionKeepsState ==
    [][(FailedIngestionEnds /\ Len(records) > 0)
          => /\ records' = records
             /\ recordsIndex' = recordsIndex
             /\ monitoringLocations' = monitoringLocations]_vars

\* C10 amended: a failed ingestion leaves records, recordsIndex and
\* monitoringLocations empty and result null, whatever they held before:
\* the earlier state is discarded as a whole, never partly overwritten.
C10_FailedIngestionClearsState ==
    [][FailedIngestionEnds
          => /\ records' = <<>>
             /\ recordsIndex' = [keys |-> <<>>, vals |-> <<>>]
             /\ monitoringLocations' = <<>>
             /\ result' = <<>>]_vars

\* C10 witness: a failed ingestion has ended in a component that had loaded
\* a file before (the search box still shows the location chosen then).
C10_Witness ==
    /\ ~isProcessing
    /\ error = <<<<"Failed to process CSV file">>>>
    /\ file = <<FileBad>>
    /\ searchQuery = <<"Banana Lake", " ", "(", "LOC001", ")">>
    /\ records = <<>>

(***************************************************************************)
(* Properties of reset (Spec).                                             *)
(***************************************************************************)
\* What reset leaves behind.
ClearedState ==
    /\ file = Null
    /\ records = <<>>
    /\ recordsIndex = EmptyMap
    /\ monitoringLocations = <<>>
    /\ selectedLocation = <<>>
    /\ result = Null
    /\ error = Null

\* No parseCSVFile call is in flight and no settled promise awaits processFile.
NoDecode == source = Null /\ promise = NoPromise /\ allRecords = <<>> /\ ~isProcessing

\* A step that is a selection of a file in the file input.
FileSelected ==
    \E selectedFile \in Files :
        HandleFileChange(selectedFile) \/ HandleFileChangeNotCsv(selectedFile)

\* C11: reset leaves file null, records, recordsIndex and monitoringLocations
\* empty, selectedLocation empty, result and error null, with no decode in
\* flight; and from such a state every step that is not a file selection
\* leaves all of this as it is, so nothing of an earlier decode shows up.
C11_ResetClearsUntilNextFile ==
    [][/\ reset => (ClearedState' /\ NoDecode')
       /\ (ClearedState /\ NoDecode /\ ~FileSelected) => (ClearedState' /\ NoDecode')]_vars

\* A reset after a file was loaded and a location chosen: the search text of
\* that choice is still held, everything else is cleared.
C11_Witness ==
    /\ ClearedState /\ NoDecode
    /\ searchQuery = <<"Banana Lake", " ", "(", "LOC001", ")">>

(***************************************************************************)
(* Properties of the records parseCSVFile returns (SpecParse).             *)
(***************************************************************************)
\* The record has no column name and no value with white space at either end.
IsTrimmed(rec) ==
    \A key \in DOMAIN rec : Trim(key) = key /\ Trim(rec[key]) = rec[key]

\* C12: every record parseCSVFile resolves with has its column names and
\* values stripped of leading and trailing white space, with and without
\* the worker.
C12_ReturnedRecordsAreTrimmed ==
    promise.state = "resolved"
        => \A i \in 1..Len(promise.value) : IsTrimmed(promise.value[i])

\* What the code does guarantee: the records are trimmed when the decode
\* runs in the worker.
C12_TrimmedInWorker ==
    (promise.state = "resolved" /\ workerAvailable)
        => \A i \in 1..Len(promise.value) : IsTrimmed(promise.value[i])

\* A padded row decoded in the worker arrives trimmed.
C12_WitnessWorker ==
    /\ promise.state = "resolved" /\ workerAvailable /\ chunks = 1
    /\ promise.value = <<ObjectOf(<< <<MonitoringLocationID, Loc1>>,
                                     <<CharacteristicName, TemperatureWater>>,
                                     <<ResultValue, Text155>> >>)>>
    /\ bytesProcessed = 1

(***************************************************************************)
(* Properties of getMonitoringLocationsWithNamesFromIndex (SpecLocations). *)
(***************************************************************************)
\* The locations the call returned.
ReturnedLocations == retLocations.value

\* C13: the call returns one Monitoring Location per key of the index (the
\* ids returned are the keys, none twice), in ascending order of name, and
\* the empty sequence for an index with no keys.
C13_OnePerKeySortedByName ==
    fnPc = "returned" =>
        /\ retLocations.type = "return"
        /\ {ReturnedLocations[i].id : i \in 1..Len(ReturnedLocations)}
              = {argIndex.keys[i] : i \in 1..Len(argIndex.keys)}
        /\ \A i, j \in 1..Len(ReturnedLocations) :
              ReturnedLocations[i].id = ReturnedLocations[j].id => i = j
        /\ \A i, j \in 1..Len(ReturnedLocations) :
              i < j => localeCompare(ReturnedLocations[i].name,
                                     ReturnedLocations[j].name) <= 0
        /\ (argIndex.keys = <<>> => ReturnedLocations = <<>>)

\* Three keys met in the order LOC003, LOC001, LOC002 come back as
\* Apple Lake, LOC002, Zebra Lake.
C13_Witness ==
    /\ fnPc = "returned"
    /\ argIndex.keys = <<Loc3, Loc1, Loc2>>
    /\ [i \in 1..Len(ReturnedLocations) |-> ReturnedLocations[i].name]
          = << <<"Apple Lake">>, Loc2, <<"Zebra Lake">> >>

\* The index with no keys.
C13_WitnessEmptyIndex ==
    fnPc = "returned" /\ argIndex = EmptyMap /\ ReturnedLocations = <<>>

\* The first record of the input with the given location id.
FirstRecordOf(id) ==
    argRecords[CHOOSE i \in 1..Len(argRecords) :
                  /\ argRecords[i][MonitoringLocationID] = id
                  /\ \A j \in 1..(i - 1) : argRecords[j][MonitoringLocationID] # id]

\* C14: each location's name is the MonitoringLocationName of the first
\* record of its group when that record has one that is not empty, and the
\* location id otherwise; its displayName is "name (id)".
C14_NameFromFirstRecord ==
    fnPc = "returned" =>
        \A i \in 1..Len(ReturnedLocations) :
            LET loc   == ReturnedLocations[i]
                first == FirstRecordOf(loc.id)
            IN  /\ loc.name =
                      IF /\ MonitoringLocationName \in DOMAIN first
                         /\ first[MonitoringLocationName] # <<>>
                      THEN first[MonitoringLocationName]
                      ELSE loc.id
                /\ loc.displayName = loc.name \o <<" ", "(">> \o loc.id \o <<")">>

\* The first record of LOC001 has an empty name and a later one is named:
\* the location is called LOC001.
C14_Witness ==
    /\ fnPc = "returned"
    /\ Len(argRecords) = 2
    /\ argRecords[1] = ObjectOf(<< <<MonitoringLocationID, Loc1>>,
                                   <<MonitoringLocationName, <<>> >> >>)
    /\ argRecords[2] = ObjectOf(<< <<MonitoringLocationID, Loc1>>,
                                   <<MonitoringLocationName, <<"Apple Lake">> >> >>)
    /\ ReturnedLocations = << [id |-> Loc1, name |-> Loc1,
                               displayName |-> <<"LOC001", " ", "(", "LOC001", ")">>] >>

\* The first record carries the name.
C14_WitnessNamed ==
    /\ fnPc = "returned"
    /\ Len(ReturnedLocations) = 1
    /\ ReturnedLocations[1].displayName = <<"Zebra Lake", " ", "(", "LOC002", ")">>

(***************************************************************************)
(* Properties of the progress notifications (SpecParse).                   *)
(***************************************************************************)
\* C15: once parseCSVFile has resolved, the last progress notification
\* delivered has percentage 100 and bytesProcessed equal to totalBytes,
\* whatever cursors the chunks reported; it is there in the first state in
\* which the promise is resolved, so it was delivered no later.
C15_FinalProgressBeforeResolve ==
    promise.state = "resolved" =>
        /\ lastProgress # Null
        /\ lastProgress[1].percentage = [k |-> "fin", n |-> 100, d |-> 1]
        /\ lastProgress[1].bytesProcessed = totalBytes
        /\ lastProgress[1].totalBytes = totalBytes

\* Resolved after a chunk that reported cursor 1 of 3 bytes.
C15_Witness ==
    /\ promise.state = "resolved"
    /\ totalBytes = 3 /\ bytesProcessed = 1
    /\ lastProgress = <<[bytesProcessed |-> 3, totalBytes |-> 3,
                         percentage |-> [k |-> "fin", n |-> 100, d |-> 1]]>>

\* Resolved after chunks that reported no cursor at all.
C15_WitnessNoCursor ==
    /\ promise.state = "resolved"
    /\ totalBytes = 3 /\ bytesProcessed = 0 /\ chunks = 2
    /\ lastProgress # Null

\* The percentage is an integer from 0 to 100.
IsPercent(v) == v.k = "fin" /\ v.d = 1 /\ v.n \in 0..100

\* C16: every progress notification carries an integer percentage between
\* 0 and 100, which is floor(bytesProcessed / totalBytes * 100) whenever
\* that quotient exists, for every source size, zero included, and every
\* cursor.
C16_PercentageInRange ==
    lastProgress # Null =>
        /\ IsPercent(lastProgress[1].percentage)
        /\ lastProgress[1].totalBytes > 0 =>
              lastProgress[1].percentage.n
                 = (lastProgress[1].bytesProcessed * 100) \div lastProgress[1].totalBytes

\* What the code does guarantee: the claim for a source that is not empty.
C16_PercentageOfNonEmptySource ==
    (lastProgress # Null /\ totalBytes > 0) =>
        /\ IsPercent(lastProgress[1].percentage)
        /\ lastProgress[1].percentage.n
              = (lastProgress[1].bytesProcessed * 100) \div lastProgress[1].totalBytes

\* A chunk of a three-byte source reported cursor 2: 66 percent.
C16_WitnessNonEmptySource ==
    /\ promise.state = "pending"
    /\ lastProgress = <<[bytesProcessed |-> 2, totalBytes |-> 3,
                         percentage |-> [k |-> "fin", n |-> 66, d |-> 1]]>>

(***************************************************************************)
(* Properties of the accumulation (SpecParse).                             *)
(***************************************************************************)
\* The record made of a delivered row: the row's fields, trimmed or not.
IsRecordOf(rec, row) == rec = ObjectOf(row) \/ rec = TrimmedRow(row)

\* C19: the array parseCSVFile resolves with holds one record for every
\* row delivered to the chunk callback, in the order of delivery: the i-th
\* record is made of the i-th delivered row, so none is lost, duplicated or
\* moved and the records of an earlier chunk come first.
C19_ResolvedIsConcatenationOfChunks ==
    promise.state = "resolved" =>
        /\ Len(promise.value) = Len(delivered)
        /\ \A i \in 1..Len(delivered) : IsRecordOf(promise.value[i], delivered[i])

\* Two chunks of one row each, different rows.
C19_Witness ==
    /\ promise.state = "resolved"
    /\ chunks = 2
    /\ Len(delivered) = 2
    /\ bytesProcessed = 2
    /\ delivered[1] # delivered[2]
    /\ promise.value[1] # promise.value[2]

(***************************************************************************)
(* Properties of processFile in the component (Spec).                      *)
(***************************************************************************)
\* The step that ends an ingestion that failed: the promise was rejected,
\* or its records gave no monitoring location.
IngestionFails ==
    /\ isProcessing /\ ~isProcessing'
    /\ promise.state = "rejected" \/ monitoringLocations' = <<>>

\* C17: an ingestion of a selected .csv file that fails ends with error
\* set, isProcessing false and parseProgress 0.
C17_FailureShowsError ==
    [][IngestionFails
          => /\ error' = <<<<"Failed to process CSV file">>>>
             /\ ~isProcessing'
             /\ parseProgress' = [k |-> "fin", n |-> 0, d |-> 1]]_vars

\* A file whose first row lacks ResultValue has been rejected: the error is
\* shown and the progress is back at 0 after the final 100.
C17_Witness ==
    /\ file = <<FileBad>>
    /\ error = <<<<"Failed to process CSV file">>>>
    /\ ~isProcessing
    /\ parseProgress = [k |-> "fin", n |-> 0, d |-> 1]
    /\ records = <<>>
    /\ searchQuery = <<>>

\* allRecords' continues allRecords.
Extends(longer, shorter) ==
    /\ Len(shorter) <= Len(longer)
    /\ SubSeq(longer, 1, Len(shorter)) = shorter

\* C18: a decode is in flight only while isProcessing; while isProcessing
\* the step taken is never a reset or the selection of another file (file
\* stays), never the start of a second decode (a pending promise is the one
\* that was pending, its records kept), and isProcessing goes back to false
\* only once the promise has settled.
C18_OneDecodeAtATime ==
    [][/\ (promise.state # "none" \/ source # <<>>) => isProcessing
       /\ isProcessing =>
             /\ file' = file
             /\ promise'.state = "pending" =>
                   /\ promise.state = "pending"
                   /\ source' = source
                   /\ Extends(allRecords', allRecords)
             /\ ~isProcessing' => promise.state \in {"resolved", "rejected"}]_vars

\* A second file is being decoded, two of its rows are in, while the data
\* of the first file is still held.
C18_Witness ==
    /\ isProcessing
    /\ promise.state = "pending"
    /\ file = <<FileA>>
    /\ Len(allRecords) = 2
    /\ Len(records) = 1
    /\ chunks = 1

\* C20: records, recordsIndex and monitoringLocations are all three empty,
\* or recordsIndex is the index of records and monitoringLocations the
\* locations of that index, at least one; when no file is being processed
\* the records are made of rows of the selected file.
C20_DerivedStateConsistent ==
    /\ \/ /\ records = <<>>
          /\ recordsIndex = [keys |-> <<>>, vals |-> <<>>]
          /\ monitoringLocations = <<>>
       \/ /\ records # <<>>
          /\ recordsIndex = indexRecordsByLocation(records)
          /\ getMonitoringLocationsWithNamesFromIndex(recordsIndex).type = "return"
          /\ monitoringLocations
                = getMonitoringLocationsWithNamesFromIndex(recordsIndex).value
          /\ Len(monitoringLocations) >= 1
    /\ (records # <<>> /\ ~isProcessing) =>
          /\ file # <<>>
          /\ \A i \in 1..Len(records) :
                \E row \in file[1].rows : IsRecordOf(records[i], row)

\* File a is loaded: two records, two locations, one of them selected.
C20_Witness ==
    /\ ~isProcessing
    /\ file = <<FileA>>
    /\ Len(records) = 2
    /\ Len(monitoringLocations) = 2
    /\ selectedLocation = Loc1
    /\ result # <<>>

\* The data of file a is still held while file b is being decoded.
C20_WitnessDuringDecode ==
    /\ isProcessing
    /\ file = <<FileB>>
    /\ Len(records) = 2
    /\ records[1][MonitoringLocationID] = Loc1

(***************************************************************************)
(* Properties of result in the component (Spec).                           *)
(***************************************************************************)
\* result is null, or a result for the selected location, which is a key of
\* recordsIndex, with at least one value.
ResultIsOfSelection ==
    result # <<>> =>
        /\ result[1].count > 0
        /\ result[1].monitoringLocationId = selectedLocation
        /\ selectedLocation \in DOMAIN recordsIndex.vals

\* The number of records of the location that name "Temperature, water"
\* exactly and hold a finite number.
ValidCount(id) ==
    Cardinality({i \in 1..Len(records) :
                    /\ MonitoringLocationID \in DOMAIN records[i]
                    /\ records[i][MonitoringLocationID] = id
                    /\ NamesWaterTemperature(records[i])
                    /\ ParsedValue(records[i]).k = "fin"})

\* C21: whenever result is not null its count is above 0, its
\* monitoringLocationId is selectedLocation and that id is a key of
\* recordsIndex; choosing a location without a valid temperature value
\* leaves result null and sets error, choosing one with such values stores
\* their result; selecting a .csv file, clearing the search and reset set
\* result to null.
C21_ResultMatchesSelection ==
    [][/\ ResultIsOfSelection /\ ResultIsOfSelection'
       /\ \A i \in 1..Len(monitoringLocations) :
             SelectLocation(monitoringLocations[i]) =>
                IF ValidCount(monitoringLocations[i].id) = 0
                THEN /\ result' = <<>>
                     /\ error' = << <<"No temperature data found for location: ">>
                                       \o monitoringLocations[i].id >>
                ELSE /\ result' # <<>>
                     /\ result'[1].count = ValidCount(monitoringLocations[i].id)
                     /\ error' = <<>>
       /\ (clearSearch \/ reset \/ \E selectedFile \in Files : HandleFileChange(selectedFile))
             => result' = <<>>]_vars

\* LOC001 of file a is selected and its one value averaged.
C21_Witness ==
    /\ result # <<>>
    /\ result[1].count = 1
    /\ selectedLocation = Loc1
    /\ file = <<FileA>>
    /\ error = <<>>

\* LOC002 of file a, whose only value is "invalid", is selected: no result,
\* an error instead.
C21_WitnessNoData ==
    /\ result = <<>>
    /\ selectedLocation = Loc2
    /\ error = << <<"No temperature data found for location: ", "LOC002">> >>

=============================================================================
